---- MODULE Spec2Model ----
(***************************************************************************)
(* Model of the bounded-async crawler (scraping_async.py): main,           *)
(* process_category, get_book_urls, process_book, get_html, fetch_image    *)
(* and write_csv, running as asyncio tasks over one shared SEMAPHORE.      *)
(* A step of the model is what one task does between two suspension       *)
(* points (await of the semaphore, of an HTTP response, of a gather, of    *)
(* the file write).  The web site and the file system are the environment: *)
(* the outcome of every request and every write is chosen with \E.        *)
(***************************************************************************)
EXTENDS Integers, Sequences, FiniteSets, TLC

\* ---------------------------------------------------------------- bounds
\* Number of categories the home page lists.
NumCats == 2
\* Listing pages of a category that carry books; pages after it are empty.
MaxPage == 2
\* Largest configured value of MAX_CONCURRENT_REQUESTS that is explored.
MaxCap == 2
\* Largest number of listing pages of the category walked by both the
\* asynchronous and the sequential implementation.
MaxSitePages == 11

Categories == 1..NumCats

\* Python's None: in the rating column (strings), and where process_book
\* returns a row (records).
None == "None"
NoneRow == [none |-> TRUE]

\* scraping_async.py:21
RATING_CONVERTOR ==
    [l \in {"One", "Two", "Three", "Four", "Five"} |->
        CASE l = "One" -> "1/5"
          [] l = "Two" -> "2/5"
          [] l = "Three" -> "3/5"
          [] l = "Four" -> "4/5"
          [] l = "Five" -> "5/5"]

\* dict.get(key): the value, or None for a key the dict does not hold.
DictGet(d, k) == IF k \in DOMAIN d THEN d[k] ELSE None

\* ------------------------------------------------------- the environment
\* star-rating class labels an item page can carry ("Zero" is no key of
\* RATING_CONVERTOR), in a fixed order.
SiteLabels == <<"One", "Two", "Three", "Four", "Five", "Zero">>

\* Listing pages of category c that carry books: the first category has
\* MaxPage of them, every other category one.  Any page after them is empty.
PagesOf(c) == IF c = 1 THEN MaxPage ELSE 1

Items == {i \in Categories \X (1..MaxPage) : i[2] <= PagesOf(i[1])}

\* The contents of the site during one run: the star-rating label of each
\* item page.  The labelings explored give the items of one category
\* different labels, and every item every label.
Labeling(k) ==
    [i \in Items |-> SiteLabels[((k + i[1] + i[2]) % Len(SiteLabels)) + 1]]

SiteLabelings == {Labeling(k) : k \in 0..(Len(SiteLabels) - 1)}

\* A parsed item page: either it has the nodes the extraction reads
\* (title, p.star-rating, img, table cells, digits in the availability
\* cell) or one of them is missing.
ItemDocuments(l) ==
    {[shape |-> "broken", label |-> l], [shape |-> "ok", label |-> l]}

\* Largest page index the model tells apart: every page after MaxPage is
\* the same empty page.
PageCap == MaxPage + 1

\* A listing url: the category directory and the file in it, 0 standing
\* for index.html and n > 0 for page-n.html.
\* get_every_category: the link of a category is BASE_URL + href, the href
\* of the home page naming the index.html of the category.
category_link(c) == [category |-> c, file |-> 0]

\* The url under which the site serves listing page p of category c.
ListingUrl(c, p) == [category |-> c, file |-> IF p = 1 THEN 0 ELSE p]

\* str.replace on the file of a listing url.
Replace(url, old, new) ==
    IF url.file = old THEN [url EXCEPT !.file = new] ELSE url

\* Request identifiers: <<kind, category, index>>.
HomeReq == <<"home", 0, 0>>
ListingReq(c, p) == <<"listing", c, p>>
ItemReq(c, b) == <<"item", c, b>>
ImageReq(c, b) == <<"image", c, b>>

VARIABLES
    labels,       \* the site: star-rating label of each item page
    cap,          \* MAX_CONCURRENT_REQUESTS of this run
    sem,          \* SEMAPHORE._value
    holders,      \* get_html calls inside "async with SEMAPHORE"
    inflight,     \* requests sent with session.get and not yet answered
    mainpc,       \* position of main()
    catpc,        \* position of process_category, per category
    page_number,  \* get_book_urls: page_number, per category
    books_urls,   \* get_book_urls: books_urls, per category
    itempc,       \* position of process_book, per item
    soup,         \* process_book: soup, what get_html returned for the item
                  \* page: "unset", "None" or "document"
    row,          \* process_book: the value returned, per item
    rows,         \* process_category: information_rows, per category
    csv,          \* the rows of each category file
    writes,       \* number of times write_csv opened the category file
                  \* (0: the file does not exist)
    image,        \* fetch_image per item: "none", "saved" (the file was
                  \* written) or "failed" (the error was printed)
    walker,       \* get_book_urls per category: "idle", "fetching", "done"
                  \* (left by the break of line 133), "failed" (left by the
                  \* break of line 121) or "cancelled"
    listing_gets, \* page numbers get_book_urls has requested, per category
    gets,         \* number of session.get calls made for each request
    answer,       \* what the last session.get of a get_html call met: "none",
                  \* "ok", "status_error" (raise_for_status raised) or
                  \* "transport_error"
    home_soup,    \* main: soup, what get_html returned for the home page
    current_page_url, \* get_book_urls: current_page_url, per category
    wide,         \* the site: whether the first listing page of the last
                  \* category links two books instead of one
    eq            \* one category walked by both implementations: the
                  \* input and the book urls each one collects

vars == <<labels, cap, sem, holders, inflight, mainpc, catpc, page_number,
          books_urls, itempc, soup, row, rows, csv, writes, image, walker,
          listing_gets, gets, answer, home_soup, current_page_url, wide, eq>>

\* Books linked from listing page p of category c, in position order: one
\* book on each page that carries books; on a wide site the first page of
\* the first category links a second book after it.
BooksOnPage(c, p) ==
    IF p > PagesOf(c) THEN <<>>
    ELSE IF wide /\ c = 1 /\ p = 1 THEN <<1, MaxPage + 1>>
    ELSE <<p>>

\* The requests get_html is called for.
HtmlRequests ==
    {HomeReq}
        \cup {ListingReq(c, p) : c \in Categories, p \in 1..PageCap}
        \cup {ItemReq(i[1], i[2]) : i \in Items}

Requests == HtmlRequests \cup {ImageReq(i[1], i[2]) : i \in Items}

\* What session.get and raise_for_status can meet (lines 57-58).
Answers == {"ok", "status_error", "transport_error"}

\* No category is being walked by both implementations.
EqIdle ==
    [n |-> 0, fail |-> 0, kind |-> "ok", ran |-> {},
     async |-> <<>>, seq |-> <<>>]

\* The state after construction, for a given site.
CrawlInit ==
    /\ cap \in 1..MaxCap
    /\ sem = cap
    /\ holders = {}
    /\ inflight = {}
    /\ mainpc = "start"
    /\ catpc = [c \in Categories |-> "none"]
    /\ page_number = [c \in Categories |-> 1]
    /\ books_urls = [c \in Categories |-> <<>>]
    /\ itempc = [i \in Items |-> "none"]
    /\ soup = [i \in Items |-> "unset"]
    /\ row = [i \in Items |-> NoneRow]
    /\ rows = [c \in Categories |-> <<>>]
    /\ csv = [c \in Categories |-> <<>>]
    /\ writes = [c \in Categories |-> 0]
    /\ image = [i \in Items |-> "none"]
    /\ walker = [c \in Categories |-> "idle"]
    /\ listing_gets = [c \in Categories |-> {}]
    /\ gets = [r \in Requests |-> 0]
    /\ answer = [r \in HtmlRequests |-> "none"]
    /\ home_soup = "unset"
    /\ current_page_url = [c \in Categories |-> category_link(c)]

Init ==
    /\ labels \in SiteLabelings
    /\ wide = FALSE
    /\ eq = EqIdle
    /\ CrawlInit

\* ------------------------------------------------------------- helpers
Range(s) == {s[k] : k \in 1..Len(s)}

Min(a, b) == IF a < b THEN a ELSE b

\* CategoryName: the text of the category's link on the home page.
CategoryName(c) == c

\* The tasks asyncio.gather(*tasks) of process_category waits for.
TasksOf(c) == {<<c, books_urls[c][k]>> : k \in 1..Len(books_urls[c])}

\* ---------------------------------------------------------------- get_html
\* Faulty variant of Acquire: a permit is taken without waiting for one to be free.
AcquireWithoutWaiting(r) ==
    /\ sem' = sem - 1
    /\ holders' = holders \cup {r}

\* "async with SEMAPHORE": __aenter__ returns once _value > 0 and takes one.
Acquire(r) ==
    /\ sem > 0
    /\ sem' = sem - 1
    /\ holders' = holders \cup {r}

\* "async with SEMAPHORE": __aexit__, on return and on every exception.
Release(r) ==
    /\ sem' = sem + 1
    /\ holders' = holders \ {r}

\* session.get is called for request r.  The listing pages after MaxPage
\* are one request of the model: their calls are counted as one.
SessionGet(r) ==
    [gets EXCEPT ![r] = IF r[1] = "listing" /\ r[3] = PageCap THEN 1 ELSE @ + 1]

\* get_html up to its await of session.get(url).
GetHtmlEnter(r) ==
    /\ Acquire(r)
    /\ inflight' = inflight \cup {r}
    /\ gets' = SessionGet(r)

\* Faulty variant of GetHtmlResult: without raise_for_status the body of a
\* non-2xx answer is parsed and returned as a document.
GetHtmlResultParsesErrorPage(a) ==
    IF a = "transport_error" THEN None ELSE "document"

\* get_html lines 56-62: the parsed document if the GET was answered with a
\* 2xx status, None (after the print) on httpx.HTTPError.
GetHtmlResult(a) == IF a = "ok" THEN "document" ELSE None

\* get_html from the answer of session.get to its return.
GetHtmlExit(r, a) ==
    /\ Release(r)
    /\ answer' = [answer EXCEPT ![r] = a]

\* -------------------------------------------------------------- extraction
\* get_information / get_information_table raise (AttributeError,
\* IndexError, TypeError) when a node they read is missing.
ContractViolation(doc) == doc.shape = "broken"

\* get_information: the rating of the page.
get_information(doc) == DictGet(RATING_CONVERTOR, doc.label)

\* Faulty variant of get_information_table: the category column is the name
\* of the first category of the home page, whichever category asked.
get_information_tableFirstCategory(doc, category_name) == CategoryName(1)

\* get_information_table: the category column is the name handed down.
get_information_table(doc, category_name) == category_name

\* process_book lines 151-160: current_row.
current_row(doc, book_url, category_name) ==
    [category |-> get_information_table(doc, category_name),
     review_rating |-> get_information(doc),
     product_page_url |-> book_url]

\* -------------------------------------------------------------------- main
\* main: soup = await get_html(session, BASE_URL), up to the request.
MainStart ==
    /\ mainpc = "start"
    /\ GetHtmlEnter(HomeReq)
    /\ mainpc' = "home"
    /\ UNCHANGED <<labels, cap, soup, catpc, page_number, books_urls, itempc,
                   row, rows, csv, writes, image, walker, listing_gets,
                   answer, home_soup, current_page_url, wide, eq>>

\* main: the home page arrived; one process_category task per category.
MainHomeOk ==
    /\ mainpc = "home"
    /\ \E a \in Answers :
          /\ GetHtmlResult(a) = "document"
          /\ GetHtmlExit(HomeReq, a)
          /\ home_soup' = GetHtmlResult(a)
    /\ inflight' = inflight \ {HomeReq}
    /\ catpc' = [c \in Categories |-> "walk_wait"]
    /\ walker' = [c \in Categories |-> "fetching"]
    /\ mainpc' = "gather"
    /\ UNCHANGED <<labels, cap, soup, page_number, books_urls, itempc, row,
                   rows, csv, writes, image, listing_gets, gets,
                   current_page_url, wide, eq>>

\* Faulty variant of MainHomeFailed: main goes on to the categories although
\* get_html returned None for the home page.
MainHomeFailedGoesOn ==
    /\ mainpc = "home"
    /\ \E a \in Answers :
          /\ GetHtmlResult(a) = None
          /\ GetHtmlExit(HomeReq, a)
          /\ home_soup' = GetHtmlResult(a)
    /\ inflight' = inflight \ {HomeReq}
    /\ catpc' = [c \in Categories |-> "walk_wait"]
    /\ walker' = [c \in Categories |-> "fetching"]
    /\ mainpc' = "gather"
    /\ UNCHANGED <<labels, cap, soup, page_number, books_urls, itempc, row,
                   rows, csv, writes, image, listing_gets, gets,
                   current_page_url, wide, eq>>

\* main: get_html returned None; get_every_category(None) raises.
MainHomeFailed ==
    /\ mainpc = "home"
    /\ \E a \in Answers :
          /\ GetHtmlResult(a) = None
          /\ GetHtmlExit(HomeReq, a)
          /\ home_soup' = GetHtmlResult(a)
    /\ inflight' = inflight \ {HomeReq}
    /\ mainpc' = "raised"
    /\ UNCHANGED <<labels, cap, soup, catpc, page_number, books_urls, itempc,
                   row, rows, csv, writes, image, walker, listing_gets, gets,
                   current_page_url, wide, eq>>

\* ----------------------------------------------------------- get_book_urls
\* process_category lines 92-97: a task per book url, then await gather.
SpawnBooks(c, urls) ==
    [i \in Items |->
        IF i[1] = c /\ i[2] \in Range(urls) THEN "queued" ELSE itempc[i]]

\* get_book_urls: soup = await get_html(session, current_page_url).
WalkFetch(c) ==
    /\ catpc[c] = "walk_wait"
    /\ GetHtmlEnter(ListingReq(c, page_number[c]))
    /\ listing_gets' = [listing_gets EXCEPT ![c] = @ \cup {page_number[c]}]
    /\ catpc' = [catpc EXCEPT ![c] = "walk_fetch"]
    /\ UNCHANGED <<labels, cap, soup, mainpc, page_number, books_urls,
                   itempc, row, rows, csv, writes, image, walker, answer,
                   home_soup, current_page_url, wide, eq>>

\* Faulty variant of NextPageUrl: index.html is replaced in the url of the
\* page just read instead of the category link.
NextPageUrlFromCurrentPage(link, current, n) == Replace(current, 0, n)

\* get_book_urls line 130: the url of page n, from the category link.
NextPageUrl(link, current, n) == Replace(link, 0, n)

\* get_book_urls: the listing page arrived and its pager shows "next".
\* page_number counts on without limit; the model stops telling pages apart
\* at PageCap.
WalkNext(c) ==
    /\ catpc[c] = "walk_fetch"
    /\ \E a \in Answers :
          /\ GetHtmlResult(a) = "document"
          /\ GetHtmlExit(ListingReq(c, page_number[c]), a)
    /\ inflight' = inflight \ {ListingReq(c, page_number[c])}
    /\ books_urls' =
           [books_urls EXCEPT ![c] = @ \o BooksOnPage(c, page_number[c])]
    /\ page_number' = [page_number EXCEPT ![c] = Min(@ + 1, PageCap)]
    /\ current_page_url' =
           [current_page_url EXCEPT
               ![c] = NextPageUrl(category_link(c), @, page_number'[c])]
    /\ catpc' = [catpc EXCEPT ![c] = "walk_wait"]
    /\ UNCHANGED <<labels, cap, soup, mainpc, itempc, row, rows, csv, writes,
                   image, walker, listing_gets, gets, home_soup, wide, eq>>

\* Faulty variant of WalkLast: get_book_urls returns with the permit of its
\* last get_html still held.
WalkLastKeepsPermit(c) ==
    /\ catpc[c] = "walk_fetch"
    /\ \E a \in Answers :
          /\ GetHtmlResult(a) = "document"
          /\ answer' = [answer EXCEPT ![ListingReq(c, page_number[c])] = a]
    /\ inflight' = inflight \ {ListingReq(c, page_number[c])}
    /\ books_urls' =
           [books_urls EXCEPT ![c] = @ \o BooksOnPage(c, page_number[c])]
    /\ walker' = [walker EXCEPT ![c] = "done"]
    /\ itempc' = SpawnBooks(c, books_urls'[c])
    /\ catpc' = [catpc EXCEPT ![c] = "gather"]
    /\ UNCHANGED <<labels, cap, sem, holders, soup, mainpc, page_number,
                   row, rows, csv, writes, image, listing_gets, gets,
                   home_soup, current_page_url, wide, eq>>

\* get_book_urls: the listing page arrived without "next": break, return.
WalkLast(c) ==
    /\ catpc[c] = "walk_fetch"
    /\ \E a \in Answers :
          /\ GetHtmlResult(a) = "document"
          /\ GetHtmlExit(ListingReq(c, page_number[c]), a)
    /\ inflight' = inflight \ {ListingReq(c, page_number[c])}
    /\ books_urls' =
           [books_urls EXCEPT ![c] = @ \o BooksOnPage(c, page_number[c])]
    /\ walker' = [walker EXCEPT ![c] = "done"]
    /\ itempc' = SpawnBooks(c, books_urls'[c])
    /\ catpc' = [catpc EXCEPT ![c] = "gather"]
    /\ UNCHANGED <<labels, cap, soup, mainpc, page_number, row, rows, csv,
                   writes, image, listing_gets, gets, home_soup,
                   current_page_url, wide, eq>>

\* Faulty variant of WalkFailed: a failed page discards the books of earlier pages.
WalkFailedDropsBooks(c) ==
    /\ catpc[c] = "walk_fetch"
    /\ \E a \in Answers :
          /\ GetHtmlResult(a) = None
          /\ GetHtmlExit(ListingReq(c, page_number[c]), a)
    /\ inflight' = inflight \ {ListingReq(c, page_number[c])}
    /\ walker' = [walker EXCEPT ![c] = "failed"]
    /\ books_urls' = [books_urls EXCEPT ![c] = <<>>]
    /\ itempc' = SpawnBooks(c, <<>>)
    /\ catpc' = [catpc EXCEPT ![c] = "gather"]
    /\ UNCHANGED <<labels, cap, soup, mainpc, page_number, row, rows, csv,
                   writes, image, listing_gets, gets, home_soup,
                   current_page_url, wide, eq>>

\* get_book_urls: get_html returned None: break, return what was gathered.
WalkFailed(c) ==
    /\ catpc[c] = "walk_fetch"
    /\ \E a \in Answers :
          /\ GetHtmlResult(a) = None
          /\ GetHtmlExit(ListingReq(c, page_number[c]), a)
    /\ inflight' = inflight \ {ListingReq(c, page_number[c])}
    /\ walker' = [walker EXCEPT ![c] = "failed"]
    /\ itempc' = SpawnBooks(c, books_urls[c])
    /\ catpc' = [catpc EXCEPT ![c] = "gather"]
    /\ UNCHANGED <<labels, cap, soup, mainpc, page_number, books_urls, row,
                   rows, csv, writes, image, listing_gets, gets, home_soup,
                   current_page_url, wide, eq>>

\* ------------------------------------------------------------ process_book
\* process_book: soup = await get_html(session, book_url).
BookFetch(i) ==
    /\ itempc[i] = "queued"
    /\ GetHtmlEnter(ItemReq(i[1], i[2]))
    /\ itempc' = [itempc EXCEPT ![i] = "page"]
    /\ UNCHANGED <<labels, cap, soup, mainpc, catpc, page_number, books_urls,
                   row, rows, csv, writes, image, walker, listing_gets,
                   answer, home_soup, current_page_url, wide, eq>>

\* Faulty variant of BookFailed: the failure path of get_html leaves the guarded
\* block without releasing the permit.
BookFailedKeepsPermit(i) ==
    /\ itempc[i] = "page"
    /\ \E a \in Answers :
          /\ GetHtmlResult(a) = None
          /\ answer' = [answer EXCEPT ![ItemReq(i[1], i[2])] = a]
          /\ soup' = [soup EXCEPT ![i] = GetHtmlResult(a)]
    /\ inflight' = inflight \ {ItemReq(i[1], i[2])}
    /\ itempc' = [itempc EXCEPT ![i] = "skipped"]
    /\ UNCHANGED <<labels, cap, sem, holders, mainpc, catpc, page_number,
                   books_urls, row, rows, csv, writes, image, walker,
                   listing_gets, gets, home_soup, current_page_url, wide, eq>>

\* process_book: get_html returned None: return None.
BookFailed(i) ==
    /\ itempc[i] = "page"
    /\ \E a \in Answers :
          /\ GetHtmlResult(a) = None
          /\ GetHtmlExit(ItemReq(i[1], i[2]), a)
          /\ soup' = [soup EXCEPT ![i] = GetHtmlResult(a)]
    /\ inflight' = inflight \ {ItemReq(i[1], i[2])}
    /\ itempc' = [itempc EXCEPT ![i] = "skipped"]
    /\ UNCHANGED <<labels, cap, mainpc, catpc, page_number, books_urls, row,
                   rows, csv, writes, image, walker, listing_gets, gets,
                   home_soup, current_page_url, wide, eq>>

\* process_book: the page arrived and extraction raises.
BookBroken(i) ==
    /\ itempc[i] = "page"
    /\ \E a \in Answers :
          /\ GetHtmlResult(a) = "document"
          /\ GetHtmlExit(ItemReq(i[1], i[2]), a)
          /\ soup' = [soup EXCEPT ![i] = GetHtmlResult(a)]
    /\ \E doc \in ItemDocuments(labels[i]) :
          /\ ContractViolation(doc)
          /\ inflight' = inflight \ {ItemReq(i[1], i[2])}
          /\ itempc' = [itempc EXCEPT ![i] = "raised"]
    /\ UNCHANGED <<labels, cap, mainpc, catpc, page_number, books_urls, row,
                   rows, csv, writes, image, walker, listing_gets, gets,
                   home_soup, current_page_url, wide, eq>>

\* fetch_image up to its await of session.get(img_url): the requests in
\* flight once process_book has left get_html and awaits fetch_image.
FetchImageEnter(c, b) == (inflight \ {ItemReq(c, b)}) \cup {ImageReq(c, b)}

\* Faulty variant of BookPage: process_book returns current_row without
\* awaiting image_task.
BookPageReturnsBeforeImage(i) ==
    /\ itempc[i] = "page"
    /\ \E a \in Answers :
          /\ GetHtmlResult(a) = "document"
          /\ GetHtmlExit(ItemReq(i[1], i[2]), a)
          /\ soup' = [soup EXCEPT ![i] = GetHtmlResult(a)]
    /\ \E doc \in ItemDocuments(labels[i]) :
          /\ ~ContractViolation(doc)
          /\ row' = [row EXCEPT ![i] = current_row(doc, i, CategoryName(i[1]))]
          /\ inflight' = FetchImageEnter(i[1], i[2])
          /\ gets' = SessionGet(ImageReq(i[1], i[2]))
          /\ itempc' = [itempc EXCEPT ![i] = "done"]
    /\ UNCHANGED <<labels, cap, mainpc, catpc, page_number, books_urls, rows,
                   csv, writes, image, walker, listing_gets, home_soup,
                   current_page_url, wide, eq>>

\* process_book: the page arrived; the row is built and fetch_image awaited.
BookPage(i) ==
    /\ itempc[i] = "page"
    /\ \E a \in Answers :
          /\ GetHtmlResult(a) = "document"
          /\ GetHtmlExit(ItemReq(i[1], i[2]), a)
          /\ soup' = [soup EXCEPT ![i] = GetHtmlResult(a)]
    /\ \E doc \in ItemDocuments(labels[i]) :
          /\ ~ContractViolation(doc)
          /\ row' = [row EXCEPT ![i] = current_row(doc, i, CategoryName(i[1]))]
          /\ inflight' = FetchImageEnter(i[1], i[2])
          /\ gets' = SessionGet(ImageReq(i[1], i[2]))
          /\ itempc' = [itempc EXCEPT ![i] = "image"]
    /\ UNCHANGED <<labels, cap, mainpc, catpc, page_number, books_urls, rows,
                   csv, writes, image, walker, listing_gets, home_soup,
                   current_page_url, wide, eq>>

\* fetch_image: the image arrived and was written; process_book returns
\* current_row.
BookImageSaved(i) ==
    /\ itempc[i] = "image"
    /\ inflight' = inflight \ {ImageReq(i[1], i[2])}
    /\ image' = [image EXCEPT ![i] = "saved"]
    /\ itempc' = [itempc EXCEPT ![i] = "done"]
    /\ UNCHANGED <<labels, cap, soup, sem, holders, mainpc, catpc,
                   page_number, books_urls, row, rows, csv, writes, walker,
                   listing_gets, gets, answer, home_soup, current_page_url,
                   wide, eq>>

\* Faulty variant of BookImageFailed: a failed image makes process_book return None.
BookImageFailedDropsItem(i) ==
    /\ itempc[i] = "image"
    /\ inflight' = inflight \ {ImageReq(i[1], i[2])}
    /\ image' = [image EXCEPT ![i] = "failed"]
    /\ itempc' = [itempc EXCEPT ![i] = "skipped"]
    /\ UNCHANGED <<labels, cap, soup, sem, holders, mainpc, catpc,
                   page_number, books_urls, row, rows, csv, writes, walker,
                   listing_gets, gets, answer, home_soup, current_page_url,
                   wide, eq>>

\* fetch_image: httpx.HTTPError on the GET or OSError on the write, both
\* printed and swallowed; process_book returns current_row.
BookImageFailed(i) ==
    /\ itempc[i] = "image"
    /\ inflight' = inflight \ {ImageReq(i[1], i[2])}
    /\ image' = [image EXCEPT ![i] = "failed"]
    /\ itempc' = [itempc EXCEPT ![i] = "done"]
    /\ UNCHANGED <<labels, cap, soup, sem, holders, mainpc, catpc,
                   page_number, books_urls, row, rows, csv, writes, walker,
                   listing_gets, gets, answer, home_soup, current_page_url,
                   wide, eq>>

\* -------------------------------------------------------- process_category
\* Faulty variant of Resolved: the gather returns as soon as one task has returned.
ResolvedSome(c) == \E i \in TasksOf(c) : itempc[i] \in {"done", "skipped"}

\* asyncio.gather(*tasks) has every result: each task returned a row or None.
Resolved(c) == \A i \in TasksOf(c) : itempc[i] \in {"done", "skipped"}

\* books_info_list: what each process_book task returned, in task order.
books_info_list(c) ==
    [k \in 1..Len(books_urls[c]) |->
        IF itempc[<<c, books_urls[c][k]>>] = "done"
        THEN row[<<c, books_urls[c][k]>>] ELSE NoneRow]

\* Faulty variant of information_rows: the None results are not filtered out.
information_rowsUnfiltered(c) == books_info_list(c)

\* line 100: the rows of the books that did not return None.
information_rows(c) == SelectSeq(books_info_list(c), LAMBDA r : r # NoneRow)

\* Faulty variant of GatherReturn: the results are taken only when every
\* task returned a row; a skipped item leaves its category waiting.
GatherReturnNeedsEveryRow(c) ==
    /\ catpc[c] = "gather"
    /\ \A i \in TasksOf(c) : itempc[i] = "done"
    /\ rows' = [rows EXCEPT ![c] = information_rows(c)]
    /\ catpc' = [catpc EXCEPT ![c] = "write"]
    /\ UNCHANGED <<labels, cap, soup, sem, holders, inflight, mainpc,
                   page_number, books_urls, itempc, row, csv, writes, image,
                   walker, listing_gets, gets, answer, home_soup,
                   current_page_url, wide, eq>>

\* process_category: gather returned every result; write_csv is entered.
GatherReturn(c) ==
    /\ catpc[c] = "gather"
    /\ Resolved(c)
    /\ rows' = [rows EXCEPT ![c] = information_rows(c)]
    /\ catpc' = [catpc EXCEPT ![c] = "write"]
    /\ UNCHANGED <<labels, cap, soup, sem, holders, inflight, mainpc,
                   page_number, books_urls, itempc, row, csv, writes, image,
                   walker, listing_gets, gets, answer, home_soup,
                   current_page_url, wide, eq>>

\* process_category: gather re-raises the first exception of a task; the
\* other tasks of the gather keep running, their results are dropped.
GatherRaise(c) ==
    /\ catpc[c] = "gather"
    /\ \E i \in TasksOf(c) : itempc[i] = "raised"
    /\ catpc' = [catpc EXCEPT ![c] = "raised"]
    /\ UNCHANGED <<labels, cap, soup, sem, holders, inflight, mainpc,
                   page_number, books_urls, itempc, row, rows, csv, writes,
                   image, walker, listing_gets, gets, answer, home_soup,
                   current_page_url, wide, eq>>

\* ---------------------------------------------------------------- write_csv
\* write_csv: the file is opened with "w" and the header and rows written.
WriteCsvOk(c) ==
    /\ catpc[c] = "write"
    /\ csv' = [csv EXCEPT ![c] = rows[c]]
    /\ writes' = [writes EXCEPT ![c] = @ + 1]
    /\ catpc' = [catpc EXCEPT ![c] = "done"]
    /\ UNCHANGED <<labels, cap, soup, sem, holders, inflight, mainpc,
                   page_number, books_urls, itempc, row, rows, image, walker,
                   listing_gets, gets, answer, home_soup, current_page_url,
                   wide, eq>>

\* write_csv: OSError inside the try: printed; the file keeps what was
\* written before the error.
WriteCsvWriteError(c) ==
    /\ catpc[c] = "write"
    /\ \E k \in 0..(Len(rows[c]) - 1) :
          csv' = [csv EXCEPT ![c] = SubSeq(rows[c], 1, k)]
    /\ writes' = [writes EXCEPT ![c] = @ + 1]
    /\ catpc' = [catpc EXCEPT ![c] = "done"]
    /\ UNCHANGED <<labels, cap, soup, sem, holders, inflight, mainpc,
                   page_number, books_urls, itempc, row, rows, image, walker,
                   listing_gets, gets, answer, home_soup, current_page_url,
                   wide, eq>>

\* write_csv: aiofiles.open raises OSError, outside the try: it propagates
\* out of process_category.
WriteCsvOpenError(c) ==
    /\ catpc[c] = "write"
    /\ catpc' = [catpc EXCEPT ![c] = "raised"]
    /\ UNCHANGED <<labels, cap, soup, sem, holders, inflight, mainpc,
                   page_number, books_urls, itempc, row, rows, csv, writes,
                   image, walker, listing_gets, gets, answer, home_soup,
                   current_page_url, wide, eq>>

\* --------------------------------------------------------------- main, end
\* main: gather returned, every process_category is done.
MainReturn ==
    /\ mainpc = "gather"
    /\ \A c \in Categories : catpc[c] = "done"
    /\ mainpc' = "done"
    /\ UNCHANGED <<labels, cap, soup, sem, holders, inflight, catpc,
                   page_number, books_urls, itempc, row, rows, csv, writes,
                   image, walker, listing_gets, gets, answer, home_soup,
                   current_page_url, wide, eq>>

\* asyncio.run(main()) after main raised: every task that has not finished
\* is cancelled; CancelledError leaves "async with SEMAPHORE" through
\* __aexit__.
CancelAll ==
    /\ catpc' = [c \in Categories |->
                    IF catpc[c] \in {"done", "raised"} THEN catpc[c]
                    ELSE "cancelled"]
    /\ walker' = [c \in Categories |->
                    IF walker[c] = "fetching" THEN "cancelled" ELSE walker[c]]
    /\ itempc' = [i \in Items |->
                    IF itempc[i] \in {"queued", "page", "image"}
                    THEN "cancelled" ELSE itempc[i]]
    /\ sem' = sem + Cardinality(holders)
    /\ holders' = {}
    /\ inflight' = {}

\* main: gather re-raises the exception of a process_category; main ends
\* with it and the run is torn down.
MainRaise ==
    /\ mainpc = "gather"
    /\ \E c \in Categories : catpc[c] = "raised"
    /\ mainpc' = "raised"
    /\ CancelAll
    /\ UNCHANGED <<labels, cap, soup, page_number, books_urls, row, rows,
                   csv, writes, image, listing_gets, gets, answer, home_soup,
                   current_page_url, wide, eq>>

\* ------------------------------------------------------------ specification
Next ==
    \/ MainStart
    \/ MainHomeOk
    \/ MainHomeFailed
    \/ \E c \in Categories : WalkFetch(c)
    \/ \E c \in Categories : WalkNext(c)
    \/ \E c \in Categories : WalkLast(c)
    \/ \E c \in Categories : WalkFailed(c)
    \/ \E i \in Items : BookFetch(i)
    \/ \E i \in Items : BookFailed(i)
    \/ \E i \in Items : BookBroken(i)
    \/ \E i \in Items : BookPage(i)
    \/ \E i \in Items : BookImageSaved(i)
    \/ \E i \in Items : BookImageFailed(i)
    \/ \E c \in Categories : GatherReturn(c)
    \/ \E c \in Categories : GatherRaise(c)
    \/ \E c \in Categories : WriteCsvOk(c)
    \/ \E c \in Categories : WriteCsvWriteError(c)
    \/ \E c \in Categories : WriteCsvOpenError(c)
    \/ MainReturn
    \/ MainRaise

Spec == Init /\ [][Next]_vars

\* The answers a task waits for.
WalkResponse(c) == WalkNext(c) \/ WalkLast(c) \/ WalkFailed(c)
BookResponse(i) == BookFailed(i) \/ BookBroken(i) \/ BookPage(i)
ImageResponse(i) == BookImageSaved(i) \/ BookImageFailed(i)
WriteCsv(c) == WriteCsvOk(c) \/ WriteCsvWriteError(c) \/ WriteCsvOpenError(c)

\* The event loop runs every task that is ready, every request is answered
\* and every file write ends (weak fairness); asyncio.Semaphore wakes its
\* waiters in FIFO order, so a task waiting for a permit gets one if permits
\* keep being released (strong fairness).
Fairness ==
    /\ WF_vars(MainStart)
    /\ WF_vars(MainHomeOk \/ MainHomeFailed)
    /\ WF_vars(MainReturn)
    /\ WF_vars(MainRaise)
    /\ \A c \in Categories :
          /\ SF_vars(WalkFetch(c))
          /\ WF_vars(WalkResponse(c))
          /\ WF_vars(GatherReturn(c))
          /\ WF_vars(GatherRaise(c))
          /\ WF_vars(WriteCsv(c))
    /\ \A i \in Items :
          /\ SF_vars(BookFetch(i))
          /\ WF_vars(BookResponse(i))
          /\ WF_vars(ImageResponse(i))

\* The labels of the item pages decide no branch of the crawl, only the
\* rating written into a row: the fair behaviours are explored for one
\* labeling of the site.
FairInit == Init /\ labels = Labeling(0)

FairSpec == FairInit /\ [][Next]_vars /\ Fairness

\* ================================================================== claims
\* The category of an item, and the items of a category.
ItemsOf(c) == {i \in Items : i[1] = c}

\* The books of listing pages 1..n of category c, in page-then-position
\* order.
RECURSIVE BooksUpTo(_, _)
BooksUpTo(c, n) ==
    IF n = 0 THEN <<>> ELSE BooksUpTo(c, n - 1) \o BooksOnPage(c, n)

\* The page urls of the rows of a batch.
UrlsOf(batch) == {batch[k].product_page_url : k \in 1..Len(batch)}

\* C1: every request in flight (home page, listing page, item page, image)
\* was sent by a unit of work that holds a permit of SEMAPHORE.
C1_EveryRequestHoldsPermit == inflight \subseteq holders

\* C2: the number of units of work between acquire and release of SEMAPHORE
\* never exceeds the configured cap, whatever the cap and however many
\* categories and items are running.
C2_OutstandingWithinCap == Cardinality(holders) <= cap

\* C2 witness: the cap is reached while a walker and an item both wait for a
\* permit.
C2_CapReachedWithWaiters ==
    /\ Cardinality(holders) = cap
    /\ \E c \in Categories : catpc[c] = "walk_wait"
    /\ \E i \in Items : itempc[i] = "queued"

\* No write of a category file failed or was cut short.
NoSinkError ==
    \A c \in Categories :
        /\ catpc[c] = "raised" => \E i \in TasksOf(c) : itempc[i] = "raised"
        /\ writes[c] > 0 => csv[c] = rows[c]

\* C3: once the run has ended and some item page violated the contract (no
\* sink error involved), every category has committed its batch, and the
\* batch holds the row of every item of the category that was processed.
C3_ViolationFatalForItemOnly ==
    (/\ mainpc \in {"done", "raised"}
     /\ \E i \in Items : itempc[i] = "raised"
     /\ NoSinkError)
        => \A c \in Categories :
              /\ writes[c] = 1
              /\ \A i \in TasksOf(c) :
                    itempc[i] = "done" => row[i] \in Range(csv[c])

\* C4: a walker that ended on the failed fetch of listing page k returned
\* normally (process_category went on to its tasks), requested pages 1..k
\* and no other, and returned exactly the books of pages 1..k-1.
C4_FailedWalkKeepsEarlierPages ==
    \A c \in Categories :
        walker[c] = "failed" =>
            /\ catpc[c] \notin {"walk_wait", "walk_fetch"}
            /\ \A i \in TasksOf(c) : itempc[i] # "none"
            /\ listing_gets[c] = 1..page_number[c]
            /\ books_urls[c] = BooksUpTo(c, page_number[c] - 1)

\* C4 witness: the first category's walker failed on page 2 and returned the
\* book of page 1; another walker failed on page 1 and returned nothing.
C4_FailedOnSecondPage ==
    /\ walker[1] = "failed"
    /\ page_number[1] = 2
    /\ books_urls[1] = <<1>>
    /\ \E c \in Categories :
          walker[c] = "failed" /\ page_number[c] = 1 /\ books_urls[c] = <<>>

\* C5: the walker of every discovered category terminates: a walker that is
\* fetching listing pages eventually stops fetching them.
C5_WalkerTerminates ==
    \A c \in Categories :
        (catpc[c] \in {"walk_wait", "walk_fetch"})
            ~> (catpc[c] \notin {"walk_wait", "walk_fetch"})

\* C6 witness: the first category discovered two items, the detail page of
\* one failed and of the other arrived, and the batch written has one row.
C6_TwoItemsOneFailed ==
    /\ catpc[1] = "done"
    /\ Len(books_urls[1]) = 2
    /\ \E i, j \in TasksOf(1) : soup[i] = None /\ soup[j] = "document"
    /\ Len(csv[1]) = 1

\* C6: the batch process_category hands to write_csv holds one row for each
\* discovered item whose detail page arrived and none for an item whose
\* detail fetch failed (the state fixes the outcome of every fetch, so the
\* batch is the same however the item tasks interleaved).
C6_BatchIsSuccessfulItems ==
    \A c \in Categories :
        catpc[c] \in {"write", "done"} =>
            /\ Len(rows[c]) =
                   Cardinality({i \in TasksOf(c) : soup[i] = "document"})
            /\ UrlsOf(rows[c]) = {i \in TasksOf(c) : soup[i] = "document"}
            /\ \A k \in 1..Len(rows[c]) :
                   rows[c][k] = row[rows[c][k].product_page_url]

\* C7 witness: a category file was written, with the rows of two items,
\* while an item of another category is still in flight.
C7_WrittenWhileOthersRun ==
    \E c \in Categories :
        /\ writes[c] = 1
        /\ Len(csv[c]) = 2
        /\ \E i \in Items : i[1] # c /\ itempc[i] \in {"page", "image"}

\* C7: a category file is written at most once, and only after the walker
\* of the category has finished and every process_book task of the category
\* has returned, its image request included.
C7_CommitOnceAfterAllResolved ==
    \A c \in Categories :
        /\ writes[c] <= 1
        /\ (writes[c] > 0 \/ catpc[c] = "write") =>
              /\ walker[c] \in {"done", "failed"}
              /\ \A i \in TasksOf(c) : itempc[i] \in {"done", "skipped"}
              /\ \A i \in ItemsOf(c) :
                    /\ itempc[i] \notin {"queued", "page", "image"}
                    /\ ItemReq(i[1], i[2]) \notin inflight
                    /\ ImageReq(i[1], i[2]) \notin inflight

\* C8 witness: the image of an item failed and the row of the item is in the
\* category file.
C8_ImageFailedRowWritten ==
    \E i \in Items :
        /\ image[i] = "failed"
        /\ writes[i[1]] = 1
        /\ row[i] \in Range(csv[i[1]])

\* C8: an item whose image failed still returned its complete row, and the
\* row is in the batch of its category once the batch is built.
C8_ImageFailureKeepsRecord ==
    \A i \in Items :
        image[i] = "failed" =>
            /\ itempc[i] = "done"
            /\ row[i] # NoneRow
            /\ row[i].product_page_url = i
            /\ row[i].category = CategoryName(i[1])
            /\ catpc[i[1]] \in {"write", "done"} => row[i] \in Range(rows[i[1]])

\* C9: every row written to a category file carries one of the five ratings:
\* an item page with any other label yields no row.
C9_RatingFailsClosed ==
    \A c \in Categories :
        \A k \in 1..Len(csv[c]) :
            csv[c][k].review_rating \in {"1/5", "2/5", "3/5", "4/5", "5/5"}

\* The get_html calls that are inside "async with SEMAPHORE", by the
\* position of their callers.
InsideGetHtml ==
    (IF mainpc = "home" THEN {HomeReq} ELSE {})
        \cup {ListingReq(c, page_number[c]) :
                 c \in {d \in Categories : catpc[d] = "walk_fetch"}}
        \cup {ItemReq(i[1], i[2]) : i \in {j \in Items : itempc[j] = "page"}}

\* C10 witness: get_html was left by a failed fetch, by a fetched document
\* and by the cancellation of a request in flight, and every permit is back.
C10_EveryExitPathTaken ==
    /\ mainpc = "raised"
    /\ \E c \in Categories : walker[c] = "cancelled"
    /\ \E i \in Items : soup[i] = None
    /\ \E i \in Items : soup[i] = "document"
    /\ sem = cap
    /\ holders = {}

\* C10: the permits in use are exactly those of the get_html calls whose
\* caller has not been handed a result yet: each acquire is undone by one
\* release on every way out, before the caller goes on; the count of permits
\* in use is never negative and never above what was acquired.
C10_PermitsBalanced ==
    /\ sem >= 0
    /\ sem + Cardinality(holders) = cap
    /\ holders = InsideGetHtml

\* ---------------------------------------------------------------- claim C11
ErrorAnswers == Answers \ {"ok"}

\* Witness for C11: the run ended normally although an item page was
\* answered with a non-2xx status and a listing page met a transport error.
C11_BothErrorKindsMet ==
    /\ mainpc = "done"
    /\ \E i \in Items : answer[ItemReq(i[1], i[2])] = "status_error"
    /\ \E c \in Categories, p \in 1..PageCap :
          answer[ListingReq(c, p)] = "transport_error"

\* C11: a get_html call whose GET met a non-2xx status or a transport error
\* returns None and never a document, raises nothing into its caller, and
\* made exactly one GET: the item is skipped with no record, the walk stops
\* at that page without taking a book from it, main holds None as its soup.
C11_FailureIsNoneAfterOneGet ==
    /\ \A r \in HtmlRequests :
          /\ gets[r] <= 1
          /\ answer[r] # "none" => gets[r] = 1
    /\ answer[HomeReq] \in ErrorAnswers => home_soup = None
    /\ \A i \in Items :
          answer[ItemReq(i[1], i[2])] \in ErrorAnswers =>
              /\ soup[i] = None
              /\ row[i] = NoneRow
              /\ itempc[i] = "skipped"
    /\ \A c \in Categories, p \in 1..PageCap :
          answer[ListingReq(c, p)] \in ErrorAnswers =>
              /\ walker[c] = "failed"
              /\ page_number[c] = p
              /\ \A b \in Range(BooksOnPage(c, p)) :
                    b \notin Range(books_urls[c])

\* ---------------------------------------------------------------- claim C12
\* Witness for C12: every category of the home page has committed a batch
\* with all of its books, the categories having run side by side.
C12_AllCategoriesCommitted ==
    /\ mainpc = "done"
    /\ cap > 1
    /\ \A c \in Categories :
          /\ writes[c] = 1
          /\ Len(csv[c]) = PagesOf(c)

\* C12: each record of a category's batch and of its file carries the name
\* of the category under whose listing pages its url was found, and is in
\* the file of no other category.
C12_RecordInItsCategoryFile ==
    \A c \in Categories :
        /\ \A k \in 1..Len(rows[c]) :
              /\ rows[c][k].category = CategoryName(c)
              /\ rows[c][k].product_page_url \in TasksOf(c)
        /\ \A k \in 1..Len(csv[c]) :
              /\ csv[c][k].category = CategoryName(c)
              /\ csv[c][k].product_page_url \in TasksOf(c)
              /\ \A d \in Categories \ {c} :
                    csv[c][k].product_page_url \notin UrlsOf(csv[d])

\* ---------------------------------------------------------------- claim C13
\* C13: an error of the sink in one category does not abort the others: a
\* category is cancelled before its commit only when the page of some item
\* broke the extraction contract, never because of the sink.
C13_SinkErrorAbortsNoCategory ==
    \A c \in Categories :
        catpc[c] = "cancelled" => \E i \in Items : itempc[i] = "raised"

\* ---------------------------------------------------------------- claim C14
\* The walk of the listing pages alone, on sites with one or two books on
\* the first page of the first category.
WalkInit ==
    /\ labels = Labeling(0)
    /\ wide \in BOOLEAN
    /\ eq = EqIdle
    /\ CrawlInit

WalkStep ==
    \/ MainStart
    \/ MainHomeOk
    \/ MainHomeFailed
    \/ \E c \in Categories : WalkFetch(c)
    \/ \E c \in Categories : WalkNext(c)
    \/ \E c \in Categories : WalkLast(c)
    \/ \E c \in Categories : WalkFailed(c)

WalkSpec == WalkInit /\ [][WalkStep]_vars

\* The listing requests of category c that are waiting for an answer.
ListingOutstanding(c) ==
    {r \in holders \cup inflight : r[1] = "listing" /\ r[2] = c}

\* The number of listing pages get_book_urls has read.
PagesRead(c) ==
    IF walker[c] = "done" THEN page_number[c] ELSE page_number[c] - 1

\* Witness for C14: on a wide site the first category was walked over two
\* pages and returned the two books of page 1 before the book of page 2;
\* the walk of the last category ended after its first page.
C14_TwoPagesThenSinglePage ==
    /\ wide
    /\ walker[1] = "done"
    /\ page_number[1] = 2
    /\ books_urls[1] = <<1, MaxPage + 1, 2>>
    /\ walker[NumCats] = "done"
    /\ page_number[NumCats] = 1
    /\ listing_gets[NumCats] = {1}

\* C14: a walker fetches its listing pages one at a time in index order,
\* starting at the entry url; the url it fetches for page n is the one the
\* site serves page n under; no listing url is fetched twice; the urls
\* returned are those of the pages read, in page-then-position order.  (The
\* pages from PageCap on are told apart no further.)
C14_WalkInIndexOrder ==
    \A c \in Categories :
        walker[c] # "idle" =>
            /\ current_page_url[c] = ListingUrl(c, page_number[c])
            /\ IF catpc[c] = "walk_wait"
               THEN \/ listing_gets[c] = 1..(page_number[c] - 1)
                    \/ /\ page_number[c] = PageCap
                       /\ listing_gets[c] = 1..PageCap
               ELSE listing_gets[c] = 1..page_number[c]
            /\ \A p \in 1..PageCap :
                  gets[ListingReq(c, p)] =
                      IF p \in listing_gets[c] THEN 1 ELSE 0
            /\ ListingOutstanding(c) =
                   IF catpc[c] = "walk_fetch"
                   THEN {ListingReq(c, page_number[c])} ELSE {}
            /\ books_urls[c] = BooksUpTo(c, PagesRead(c))

\* ---------------------------------------------------------------- claim C15
\* No item page broke the extraction contract and the sink raised no error.
NoViolationNoSinkError ==
    /\ \A i \in Items : itempc[i] # "raised"
    /\ \A c \in Categories :
          /\ catpc[c] # "raised"
          /\ writes[c] > 0 => csv[c] = rows[c]

\* Category c has committed its one batch.
Committed(c) == catpc[c] = "done" /\ writes[c] = 1

\* Witness for C15: the run ended with every category committed although
\* the entry page of the last category, the detail page of one item and the
\* image of another item of the first category failed.
C15_CommittedDespiteFailures ==
    /\ mainpc = "done"
    /\ \A c \in Categories : Committed(c)
    /\ walker[NumCats] = "failed"
    /\ page_number[NumCats] = 1
    /\ csv[NumCats] = <<>>
    /\ itempc[<<1, 1>>] = "skipped"
    /\ image[<<1, 2>>] = "failed"
    /\ Len(csv[1]) = 1

\* The hypothesis of the claims about runs whose walkers terminate: the
\* pager of a listing page shows "next" exactly when the category has a
\* further page, so a walk ends on the last page if not on a failed fetch.
WalkNextOnSite(c) == page_number[c] < PagesOf(c) /\ WalkNext(c)

WalkLastOnSite(c) == page_number[c] = PagesOf(c) /\ WalkLast(c)

SiteNext ==
    \/ MainStart
    \/ MainHomeOk
    \/ MainHomeFailed
    \/ \E c \in Categories : WalkFetch(c)
    \/ \E c \in Categories : WalkNextOnSite(c)
    \/ \E c \in Categories : WalkLastOnSite(c)
    \/ \E c \in Categories : WalkFailed(c)
    \/ \E i \in Items : BookFetch(i)
    \/ \E i \in Items : BookFailed(i)
    \/ \E i \in Items : BookBroken(i)
    \/ \E i \in Items : BookPage(i)
    \/ \E i \in Items : BookImageSaved(i)
    \/ \E i \in Items : BookImageFailed(i)
    \/ \E c \in Categories : GatherReturn(c)
    \/ \E c \in Categories : GatherRaise(c)
    \/ \E c \in Categories : WriteCsvOk(c)
    \/ \E c \in Categories : WriteCsvWriteError(c)
    \/ \E c \in Categories : WriteCsvOpenError(c)
    \/ MainReturn
    \/ MainRaise

TerminatingSpec == FairInit /\ [][SiteNext]_vars /\ Fairness

\* C15: when every request is answered and the loop runs every ready task
\* (the fairness of FairSpec) and every walker terminates, every discovered
\* category eventually commits its batch, whichever fetches fail, unless a
\* contract violation or a sink error occurred; it commits one batch only,
\* and a category whose entry page failed commits a batch without records.
C15_FailuresCancelNoSibling ==
    \A c \in Categories :
        /\ (catpc[c] # "none") ~> (Committed(c) \/ ~NoViolationNoSinkError)
        /\ [](writes[c] <= 1)
        /\ []((Committed(c) /\ walker[c] = "failed" /\ page_number[c] = 1)
                  => csv[c] = <<>>)

\* ---------------------------------------------------------------- claim C16
\* One category of n listing pages, page p linking the one book p and its
\* pager reading "Page p of n" (no pager when n = 1), walked by
\* scraping_async.get_book_urls and by the loop of scraping_proj.main.  The
\* GET of page eq.fail, if any, meets eq.kind; an error status comes with an
\* error page that has no book and no pager.
EqAnswer(e, p) == IF p = e.fail THEN e.kind ELSE "ok"

EqBooksOn(e, p) == IF EqAnswer(e, p) = "ok" THEN <<p>> ELSE <<>>

EqHasNext(e, p) == EqAnswer(e, p) = "ok" /\ p < e.n

\* scraping_async.get_book_urls from page page_number on.
RECURSIVE get_book_urls(_, _)
get_book_urls(e, n) ==
    IF GetHtmlResult(EqAnswer(e, n)) = None THEN <<>>
    ELSE EqBooksOn(e, n)
             \o (IF EqHasNext(e, n) THEN get_book_urls(e, n + 1) ELSE <<>>)

\* scraping_proj.get_html: no raise_for_status, only RequestException gives
\* None.
proj_get_html(a) == IF a = "transport_error" THEN None ELSE "document"

\* scraping_proj.main: int(pager.find("li", class_="current").text.strip()[-1])
\* is the last digit of the page count; 0 without a pager.
number_of_pages(e) ==
    IF EqAnswer(e, 1) = "ok" /\ e.n >= 2 THEN e.n % 10 ELSE 0

\* scraping_proj.main: page-1.html .. page-<number_of_pages>.html, or the
\* category link alone; as page indices.
pages_category_url(e) ==
    IF number_of_pages(e) > 0
    THEN [i \in 1..number_of_pages(e) |-> i]
    ELSE <<1>>

\* scraping_proj.main: the loop over pages_category_url; a page that cannot
\* be fetched is passed over.
RECURSIVE books_links(_, _)
books_links(e, urls) ==
    IF urls = <<>> THEN <<>>
    ELSE (IF proj_get_html(EqAnswer(e, Head(urls))) = None THEN <<>>
          ELSE EqBooksOn(e, Head(urls)))
             \o books_links(e, Tail(urls))

\* scraping_proj.main for one category: the category is passed over when
\* its first page cannot be fetched.
proj_main(e) ==
    IF proj_get_html(EqAnswer(e, 1)) = None THEN <<>>
    ELSE books_links(e, pages_category_url(e))

EquivInputs ==
    {[EqIdle EXCEPT !.n = x[1], !.fail = x[2], !.kind = x[3]] :
        x \in {y \in (1..MaxSitePages) \X (0..MaxSitePages) \X ErrorAnswers :
                  y[2] <= y[1]}}

EquivInit ==
    /\ labels = Labeling(0)
    /\ wide = FALSE
    /\ eq \in EquivInputs
    /\ CrawlInit

RunAsync ==
    /\ eq.n > 0
    /\ "async" \notin eq.ran
    /\ eq' = [eq EXCEPT !.ran = @ \cup {"async"},
                        !.async = get_book_urls(eq, 1)]
    /\ UNCHANGED <<labels, cap, sem, holders, inflight, mainpc, catpc,
                   page_number, books_urls, itempc, soup, row, rows, csv,
                   writes, image, walker, listing_gets, gets, answer,
                   home_soup, current_page_url, wide>>

RunSequential ==
    /\ eq.n > 0
    /\ "seq" \notin eq.ran
    /\ eq' = [eq EXCEPT !.ran = @ \cup {"seq"}, !.seq = proj_main(eq)]
    /\ UNCHANGED <<labels, cap, sem, holders, inflight, mainpc, catpc,
                   page_number, books_urls, itempc, soup, row, rows, csv,
                   writes, image, walker, listing_gets, gets, answer,
                   home_soup, current_page_url, wide>>

EquivNext == RunAsync \/ RunSequential

EquivSpec == EquivInit /\ [][EquivNext]_vars

\* C16: for every number of listing pages and every failing page, the
\* asynchronous and the sequential implementation collect the same books of
\* the category, hence commit the same set of records.
C16_SameBooksCollected ==
    eq.ran = {"async", "seq"} => Range(eq.async) = Range(eq.seq)

\* ---------------------------------------------------------------- claim C17
\* The permits held for the listing requests of category c.
ListingPermits(c) == {r \in holders : r[1] = "listing" /\ r[2] = c}

\* Witness for C17: with a single permit, a walker that has read its first
\* page waits for the permit while an item of another category holds it.
C17_BlockedOnSinglePermit ==
    /\ cap = 1
    /\ sem = 0
    /\ \E c \in Categories :
          /\ catpc[c] = "walk_wait"
          /\ page_number[c] = 2
          /\ \E i \in Items :
                i[1] # c /\ itempc[i] = "page" /\ holders = {ItemReq(i[1], i[2])}

\* C17: a unit of work that asks for a permit holds none, nor does the unit
\* that awaits it: main holds its permit alone, a waiting walker holds none,
\* a waiting item holds none and its category none.  Hence, when requests
\* are answered and walkers terminate, every waiting walker and item is
\* granted its permit (unless an exception has torn the run down), and the
\* run ends with no permit held.
C17_NoDeadlockOnPermits ==
    /\ [](HomeReq \in holders => holders = {HomeReq})
    /\ \A c \in Categories :
          /\ [](catpc[c] \in {"walk_wait", "gather"} => ListingPermits(c) = {})
          /\ (catpc[c] = "walk_wait")
                 ~> (catpc[c] = "walk_fetch" \/ mainpc = "raised")
    /\ \A i \in Items :
          /\ [](itempc[i] = "queued" => ItemReq(i[1], i[2]) \notin holders)
          /\ (itempc[i] = "queued")
                 ~> (itempc[i] = "page" \/ mainpc = "raised")
    /\ <>[](mainpc \in {"done", "raised"} /\ holders = {} /\ sem = cap)

\* ---------------------------------------------------------------- claim C18
\* Witness for C18: one item was skipped on a failed detail page, another
\* has its record returned after its image was saved, and the image of a
\* third is being fetched with no permit held by anyone.
C18_SkippedSavedAndFetching ==
    /\ \E i \in Items : itempc[i] = "skipped" /\ soup[i] = None
    /\ \E i \in Items : itempc[i] = "done" /\ image[i] = "saved"
    /\ \E i \in Items :
          /\ itempc[i] = "image"
          /\ ImageReq(i[1], i[2]) \in inflight
    /\ holders = {}

\* C18: process_book fetches the image of an item at most once, and only
\* after the detail page of the item arrived and get_html gave its permit
\* back; an item whose detail page failed, or broke the contract, has no
\* image fetch and no image; a returned record has its image fetch resolved.
C18_ImageAfterDetailPage ==
    \A i \in Items :
        /\ gets[ImageReq(i[1], i[2])] <= 1
        /\ gets[ImageReq(i[1], i[2])] = 1 =>
              /\ soup[i] = "document"
              /\ answer[ItemReq(i[1], i[2])] = "ok"
              /\ ItemReq(i[1], i[2]) \notin holders \cup inflight
        /\ ImageReq(i[1], i[2]) \in inflight =>
              gets[ImageReq(i[1], i[2])] = 1 /\ itempc[i] = "image"
        /\ soup[i] # "document" \/ itempc[i] = "raised" =>
              /\ gets[ImageReq(i[1], i[2])] = 0
              /\ image[i] = "none"
        /\ itempc[i] = "done" =>
              /\ image[i] \in {"saved", "failed"}
              /\ ImageReq(i[1], i[2]) \notin inflight

\* ---------------------------------------------------------------- claim C19
\* Witness for C19: the home page was answered with an error status and
\* main has ended.
C19_HomePageFailed ==
    /\ answer[HomeReq] = "status_error"
    /\ home_soup = None
    /\ mainpc = "raised"

\* C19: once get_html has returned None for the home page, main has ended
\* (get_every_category(None) raises), no category was discovered, no request
\* but the one for the home page was ever made, none is outstanding, and
\* nothing was written to the sink.
C19_FailedHomePageEndsRun ==
    home_soup = None =>
        /\ mainpc = "raised"
        /\ \A c \in Categories :
              /\ catpc[c] = "none"
              /\ walker[c] = "idle"
              /\ writes[c] = 0
              /\ csv[c] = <<>>
        /\ \A i \in Items : itempc[i] = "none"
        /\ \A r \in Requests \ {HomeReq} : gets[r] = 0
        /\ gets[HomeReq] = 1
        /\ holders = {}
        /\ inflight = {}

====
